---- MODULE Spec2Model ----
(***************************************************************************)
(* Model of commands/util.go of pick: the Safe Loader (safeLoader.Load,    *)
(* LoadWithBackendClient), initSafe and readMasterPassConfirmed, run by    *)
(* concurrent command sessions (one process each) against one safe         *)
(* location.  The storage backend, the crypto provider and package safe    *)
(* live outside commands/util.go; they are modelled from their contracts.  *)
(***************************************************************************)
EXTENDS Integers, FiniteSets, Sequences, TLC

\* ---------------------------------------------------------------- bounds
MaxBudget == 1        \* RememberPassword calls explored, over all sessions
MaxCalls == 2         \* Load calls explored, over all sessions

Sessions == {"s1", "s2"}
Passwords == {"p1", "p2"}
None == "none"
EmptyCollection == {}
Collections == {EmptyCollection, {"email"}}
NoData == [key |-> None, plain |-> EmptyCollection]        \* nothing stored
NoSafe == [password |-> None, entries |-> EmptyCollection]  \* a nil *safe.Safe

\* ------------------------------------------------------------ error kinds
Ok == "ok"
ErrAlreadyRunning == "AlreadyRunning"
ErrAuthenticationFailed == "AuthenticationFailed"
ErrIO == "IOError"
ErrInput == "InputError"
ErrConfig == "ConfigError"
ErrNotInitialized == "NotInitialized"
ErrNotYetInitialized == "pick not yet initialized"
ErrAlreadyInitialized == "pick was already initialized"
ErrNoMatch == "Master passwords do not match"
ErrInvalidCommandUsage == "InvalidCommandUsage"

VARIABLES
    stored,        \* the persisted payload of the safe location, or NoData
    lockHolders,   \* sessions holding the writable lock of the location
    pc,            \* position of each session in its command
    writable,      \* safeLoader.writable
    password,      \* safeLoader.password (None = nil)
    maxLoadTries,  \* safeLoader.maxLoadTries
    loadTries,     \* safeLoader.loadTries
    initPass,      \* readMasterPassConfirmed: the password entered
    initConfirm,   \* readMasterPassConfirmed: the confirmation entered
    result,        \* error returned by the last call (Ok = nil), None before
    safe,          \* the Safe returned by the last call, or NoSafe
    calls,         \* Load calls made on the loader
    prompts,       \* password prompts issued by the current call
    attempts,      \* safe.Load attempts made by the current call
    writes,        \* backend.Save calls made by the session
    checkOut,      \* what backend.Load reported at the initialization check
    lastErr,       \* error of the last safe.Load of the current call
    budgetAtCall,  \* maxLoadTries when the current call started
    triesAtCall,   \* loadTries when the current call started
    cachedAtCall,  \* whether a password was cached when the current call started
    allAuth,       \* every safe.Load of the current call failed authentication
    contended,     \* another session held the lock at the last SetWritable call
    envFail,       \* a backend or client-construction call of the current call failed
    exitOut,       \* how runCommand ended the process, NoExit while it runs
    lockErr        \* what the session's last SetWritable returned

vars == <<stored, lockHolders, pc, writable, password, maxLoadTries, loadTries,
          initPass, initConfirm, result, safe, calls, prompts, attempts, writes, checkOut,
          lastErr, budgetAtCall, triesAtCall, cachedAtCall, allAuth, contended,
          envFail, exitOut, lockErr>>

\* sum of a per-session counter
Total(f) == f["s1"] + f["s2"]

initVars == <<initPass, initConfirm>>
loaderVars == <<writable, password, maxLoadTries, loadTries>>
atCallVars == <<budgetAtCall, triesAtCall, cachedAtCall>>
histVars == <<calls, prompts, attempts, writes, checkOut, lastErr, atCallVars, allAuth,
              contended, envFail>>

\* --------------------------------------------------------- crypto provider
Encrypt(pw, plaintext) == [key |-> pw, plain |-> plaintext]

Decrypt(pw, ciphertext) ==
    IF ciphertext.key = pw
    THEN [err |-> Ok, plain |-> ciphertext.plain]
    ELSE [err |-> ErrAuthenticationFailed, plain |-> EmptyCollection]

\* ---------------------------------------------------------- storage backend
\* backend.Load(): io is a read failure of the backend
BackendLoad(io) ==
    IF io THEN [err |-> ErrIO, data |-> NoData]
    ELSE IF stored = NoData THEN [err |-> ErrNotInitialized, data |-> NoData]
    ELSE [err |-> Ok, data |-> stored]

\* backend.SetWritable(w) called by session s: the error it returns.  A lock
\* another session holds gives AlreadyRunning; io is a failure of the lock
\* itself (the method returns a Go error, not only AlreadyRunning)
SetWritableErr(s, w, io) ==
    IF w /\ (lockHolders \ {s}) # {} THEN ErrAlreadyRunning
    ELSE IF w /\ io THEN ErrIO
    ELSE Ok

\* backend.SetWritable(w) called by session s: the lock afterwards
SetWritableLock(s, w, io) ==
    IF w
    THEN IF SetWritableErr(s, w, io) = Ok THEN lockHolders \cup {s} ELSE lockHolders
    ELSE lockHolders \ {s}

\* ------------------------------------------------------------- package safe
\* safe.Load(password, backend, crypto, config): an uninitialized location
\* gives a new empty Safe (initSafe relies on it), stored data is decrypted
SafeLoad(pw, io) ==
    LET b == BackendLoad(io) IN
    IF b.err = ErrIO THEN [err |-> ErrIO, safe |-> NoSafe]
    ELSE IF b.err = ErrNotInitialized
    THEN [err |-> Ok, safe |-> [password |-> pw, entries |-> EmptyCollection]]
    ELSE LET d == Decrypt(pw, b.data) IN
         IF d.err # Ok THEN [err |-> d.err, safe |-> NoSafe]
         ELSE [err |-> Ok, safe |-> [password |-> pw, entries |-> d.plain]]

\* backend.Save(payload): the whole payload is replaced, or on a write failure
\* the prior contents stay
BackendSave(payload, io) == IF io THEN stored ELSE payload

\* Safe.Init() of session s: the error it returns.  It fails unless
\* backend.Load() reports NotInitialized, else writes the encrypted empty
\* collection; the write requires the writable lock
SafeInitErr(s, ioRead, ioWrite) ==
    IF BackendLoad(ioRead).err # ErrNotInitialized THEN ErrAlreadyInitialized
    ELSE IF ioWrite \/ s \notin lockHolders THEN ErrIO
    ELSE Ok

\* Safe.Init(): the number of backend.Save calls it makes
SafeInitSaves(ioRead) ==
    IF BackendLoad(ioRead).err # ErrNotInitialized THEN 0 ELSE 1

\* Safe.Init(): the persisted payload afterwards
SafeInitStored(s, sf, ioRead, ioWrite) ==
    IF BackendLoad(ioRead).err # ErrNotInitialized THEN stored
    ELSE BackendSave(Encrypt(sf.password, EmptyCollection),
                     ioWrite \/ s \notin lockHolders)

\* the process has not ended
NoExit == [err |-> None, usage |-> FALSE, printed |-> <<>>, code |-> -1]

TypeOK ==
    /\ stored \in {NoData} \cup [key : Passwords, plain : Collections]
    /\ lockHolders \subseteq Sessions
    /\ writable \in [Sessions -> BOOLEAN]
    /\ password \in [Sessions -> Passwords \cup {None}]
    /\ maxLoadTries \in [Sessions -> 0..MaxBudget]
    /\ loadTries \in [Sessions -> 0..MaxBudget]

Init ==
    /\ stored \in {NoData, Encrypt("p1", {"email"})}
    /\ lockHolders = {}
    /\ pc = [s \in Sessions |-> "idle"]
    /\ writable = [s \in Sessions |-> FALSE]
    /\ password = [s \in Sessions |-> None]
    /\ maxLoadTries = [s \in Sessions |-> 0]
    /\ loadTries = [s \in Sessions |-> 0]
    /\ initPass = [s \in Sessions |-> None]
    /\ initConfirm = [s \in Sessions |-> None]
    /\ result = [s \in Sessions |-> None]
    /\ safe = [s \in Sessions |-> NoSafe]
    /\ calls = [s \in Sessions |-> 0]
    /\ prompts = [s \in Sessions |-> 0]
    /\ attempts = [s \in Sessions |-> 0]
    /\ writes = [s \in Sessions |-> 0]
    /\ checkOut = [s \in Sessions |-> None]
    /\ lastErr = [s \in Sessions |-> None]
    /\ budgetAtCall = [s \in Sessions |-> 0]
    /\ triesAtCall = [s \in Sessions |-> 0]
    /\ cachedAtCall = [s \in Sessions |-> FALSE]
    /\ allAuth = [s \in Sessions |-> FALSE]
    /\ contended = [s \in Sessions |-> FALSE]
    /\ envFail = [s \in Sessions |-> FALSE]
    /\ exitOut = [s \in Sessions |-> NoExit]
    /\ lockErr = [s \in Sessions |-> None]

\* newSafeLoader(writable)
NewSafeLoader(s, w) ==
    /\ pc[s] = "idle"
    /\ pc' = [pc EXCEPT ![s] = "ready"]
    /\ writable' = [writable EXCEPT ![s] = w]
    /\ maxLoadTries' = [maxLoadTries EXCEPT ![s] = 0]
    /\ loadTries' = [loadTries EXCEPT ![s] = 0]
    /\ password' = [password EXCEPT ![s] = None]
    /\ UNCHANGED <<stored, lockHolders, initVars, result, safe, histVars,
                   exitOut, lockErr>>

\* safeLoader.RememberPassword()
RememberPassword(s) ==
    /\ pc[s] = "ready"
    /\ Total(maxLoadTries) < MaxBudget
    /\ maxLoadTries' = [maxLoadTries EXCEPT ![s] = @ + 1]
    /\ UNCHANGED <<stored, lockHolders, pc, writable, password, loadTries,
                   initVars, result, safe, histVars,
                   exitOut, lockErr>>

\* the call of session s returns err (and the Safe sf) to its caller
Return(s, err, sf) ==
    /\ pc' = [pc EXCEPT ![s] = "ready"]
    /\ result' = [result EXCEPT ![s] = err]
    /\ safe' = [safe EXCEPT ![s] = sf]

\* the initialization check stops on a read failure only
LoadCheckFails_OnlyIO(err) == err = ErrIO

\* safeLoader.Load(): whether the initialization check fails on the error
\* backendClient.Load() returned
LoadCheckFails(err) == err # Ok

\* safeLoader.Load(): newBackendClient, the initialization check, then the
\* unlock sequence
Load(s, cfgErr, io) ==
    /\ pc[s] = "ready"
    /\ Total(calls) < MaxCalls
    /\ calls' = [calls EXCEPT ![s] = @ + 1]
    /\ prompts' = [prompts EXCEPT ![s] = 0]
    /\ attempts' = [attempts EXCEPT ![s] = 0]
    /\ lastErr' = [lastErr EXCEPT ![s] = None]
    /\ budgetAtCall' = [budgetAtCall EXCEPT ![s] = maxLoadTries[s]]
    /\ triesAtCall' = [triesAtCall EXCEPT ![s] = loadTries[s]]
    /\ cachedAtCall' = [cachedAtCall EXCEPT ![s] = password[s] # None]
    /\ allAuth' = [allAuth EXCEPT ![s] = TRUE]
    /\ envFail' = [envFail EXCEPT ![s] = cfgErr \/ io]
    /\ lockErr' = [lockErr EXCEPT ![s] = None]
    /\ IF cfgErr
       THEN /\ Return(s, ErrConfig, NoSafe)
            /\ checkOut' = [checkOut EXCEPT ![s] = None]
       ELSE /\ checkOut' = [checkOut EXCEPT ![s] = BackendLoad(io).err]
            /\ IF LoadCheckFails(BackendLoad(io).err)
               THEN Return(s, ErrNotYetInitialized, NoSafe)
               ELSE /\ pc' = [pc EXCEPT ![s] = "lwbc_setwritable"]
                    /\ result' = [result EXCEPT ![s] = None]
                    /\ safe' = [safe EXCEPT ![s] = NoSafe]
    /\ UNCHANGED <<stored, lockHolders, loaderVars, initVars, writes, contended,
                   exitOut>>

\* the loader always asks for the writable lock
RequestedWritable_Always(s) == TRUE

\* LoadWithBackendClient: the argument it passes to SetWritable
RequestedWritable(s) == writable[s]

\* the AlreadyRunning error of SetWritable is ignored
AbortsOnLock_Ignored(err) == FALSE

\* LoadWithBackendClient: whether the error of SetWritable aborts the unlock
AbortsOnLock(err) == err = ErrAlreadyRunning

\* lock contention is treated like a failed unlock: retried while budget remains
LwbcSetWritable_Retries(s, io) ==
    /\ pc[s] = "lwbc_setwritable"
    /\ lockHolders' = SetWritableLock(s, writable[s], io)
    /\ IF SetWritableErr(s, writable[s], io) = ErrAlreadyRunning
       THEN IF maxLoadTries[s] > loadTries[s]
            THEN /\ loadTries' = [loadTries EXCEPT ![s] = @ + 1]
                 /\ password' = [password EXCEPT ![s] = None]
                 /\ pc' = [pc EXCEPT ![s] = "lwbc_password"]
                 /\ UNCHANGED <<result, safe>>
            ELSE /\ Return(s, ErrAlreadyRunning, NoSafe)
                 /\ UNCHANGED <<loadTries, password>>
       ELSE /\ pc' = [pc EXCEPT ![s] = "lwbc_password"]
            /\ UNCHANGED <<result, safe, loadTries, password>>
    /\ envFail' = [envFail EXCEPT ![s] = @ \/ SetWritableErr(s, writable[s], io) = ErrIO]
    /\ lockErr' = [lockErr EXCEPT ![s] = SetWritableErr(s, writable[s], io)]
    /\ contended' = [contended EXCEPT ![s] = lockHolders \ {s} # {}]
    /\ UNCHANGED <<stored, writable, maxLoadTries, initVars, calls, prompts, attempts,
                   writes, checkOut, lastErr, atCallVars, allAuth,
                   exitOut>>

\* LoadWithBackendClient: backendClient.SetWritable(sl.writable)
LwbcSetWritable(s, io) ==
    /\ pc[s] = "lwbc_setwritable"
    /\ lockHolders' = SetWritableLock(s, RequestedWritable(s), io)
    /\ IF AbortsOnLock(SetWritableErr(s, RequestedWritable(s), io))
       THEN Return(s, ErrAlreadyRunning, NoSafe)
       ELSE /\ pc' = [pc EXCEPT ![s] = "lwbc_password"]
            /\ UNCHANGED <<result, safe>>
    /\ envFail' = [envFail EXCEPT ![s] = @ \/ SetWritableErr(s, RequestedWritable(s), io) = ErrIO]
    /\ lockErr' = [lockErr EXCEPT ![s] = SetWritableErr(s, RequestedWritable(s), io)]
    /\ contended' = [contended EXCEPT ![s] = lockHolders \ {s} # {}]
    /\ UNCHANGED <<stored, loaderVars, initVars, calls, prompts, attempts, writes,
                   checkOut, lastErr, atCallVars, allAuth,
                   exitOut>>

\* LoadWithBackendClient: prompt for the password unless one is cached
LwbcPassword(s, inp) ==
    /\ pc[s] = "lwbc_password"
    /\ IF password[s] = None
       THEN /\ prompts' = [prompts EXCEPT ![s] = @ + 1]
            /\ IF inp = ErrInput
               THEN /\ Return(s, ErrInput, NoSafe)
                    /\ UNCHANGED password
               ELSE /\ password' = [password EXCEPT ![s] = inp]
                    /\ pc' = [pc EXCEPT ![s] = "lwbc_safeload"]
                    /\ UNCHANGED <<result, safe>>
       ELSE /\ pc' = [pc EXCEPT ![s] = "lwbc_safeload"]
            /\ UNCHANGED <<password, prompts, result, safe>>
    /\ UNCHANGED <<stored, lockHolders, writable, maxLoadTries, loadTries, initVars,
                   calls, attempts, writes, checkOut, lastErr, atCallVars, allAuth,
                   contended, envFail,
                   exitOut, lockErr>>

\* every failed safe.Load is tried again
ShouldRetry_Always(s) == TRUE

\* the retry condition off by one (>= for >)
ShouldRetry_OffByOne(s) == maxLoadTries[s] >= loadTries[s]

\* LoadWithBackendClient: whether a failed safe.Load is tried again
ShouldRetry(s) == maxLoadTries[s] > loadTries[s]

\* the entered password is kept for the retry
PasswordAfterRetry_Kept(s) == password[s]

\* LoadWithBackendClient: the cached password when a failed safe.Load is retried
PasswordAfterRetry(s) == None

\* the retry is not counted
TriesAfterRetry_Forgotten(s) == loadTries[s]

\* LoadWithBackendClient: loadTries when a failed safe.Load is retried
TriesAfterRetry(s) == loadTries[s] + 1

\* LoadWithBackendClient: newCryptoClient, safe.Load, and the retry decision
LwbcAttempt(s, cfgErr, io) ==
    /\ pc[s] = "lwbc_safeload"
    /\ IF cfgErr
       THEN /\ Return(s, ErrConfig, NoSafe)
            /\ UNCHANGED <<password, loadTries, attempts, lastErr, allAuth>>
       ELSE LET r == SafeLoad(password[s], io) IN
            /\ attempts' = [attempts EXCEPT ![s] = @ + 1]
            /\ lastErr' = [lastErr EXCEPT ![s] = r.err]
            /\ allAuth' = [allAuth EXCEPT ![s] = @ /\ r.err = ErrAuthenticationFailed]
            /\ IF r.err # Ok
               THEN IF ShouldRetry(s)
                    THEN /\ password' = [password EXCEPT ![s] = PasswordAfterRetry(s)]
                         /\ loadTries' = [loadTries EXCEPT ![s] = TriesAfterRetry(s)]
                         /\ pc' = [pc EXCEPT ![s] = "lwbc_setwritable"]
                         /\ UNCHANGED <<result, safe>>
                    ELSE /\ Return(s, r.err, NoSafe)
                         /\ UNCHANGED <<password, loadTries>>
               ELSE /\ Return(s, Ok, r.safe)
                    /\ UNCHANGED <<password, loadTries>>
    /\ envFail' = [envFail EXCEPT ![s] = @ \/ cfgErr \/ io]
    /\ UNCHANGED <<lockHolders, writable, maxLoadTries, initVars,
                   calls, prompts, writes, checkOut, atCallVars, contended,
                   exitOut, lockErr>>

\* a failed unlock re-initializes the location with the entered password
LwbcSafeLoad_Saves(s, cfgErr, io) ==
    /\ LwbcAttempt(s, cfgErr, io)
    /\ stored' = IF lastErr'[s] \notin {None, Ok}
                 THEN Encrypt(password[s], EmptyCollection)
                 ELSE stored

\* LoadWithBackendClient, from the password on: it never saves to the backend
LwbcSafeLoad(s, cfgErr, io) ==
    /\ LwbcAttempt(s, cfgErr, io)
    /\ UNCHANGED stored

\* initSafe returns err to its caller
Finish(s, err) ==
    /\ pc' = [pc EXCEPT ![s] = "done"]
    /\ result' = [result EXCEPT ![s] = err]

\* initSafe: whether the initialization check fails on the error
\* backendClient.Load() returned
InitCheckFails(err) == err = Ok

\* initSafe: newBackendClient and the initialization check
InitCheck(s, cfgErr, io) ==
    /\ pc[s] = "idle"
    /\ IF cfgErr
       THEN /\ Finish(s, ErrConfig)
            /\ UNCHANGED checkOut
       ELSE /\ checkOut' = [checkOut EXCEPT ![s] = BackendLoad(io).err]
            /\ IF InitCheckFails(BackendLoad(io).err)
               THEN Finish(s, ErrAlreadyInitialized)
               ELSE /\ pc' = [pc EXCEPT ![s] = "init_setwritable"]
                    /\ UNCHANGED result
    /\ envFail' = [envFail EXCEPT ![s] = cfgErr \/ io]
    /\ UNCHANGED <<stored, lockHolders, loaderVars, initVars, safe, calls, prompts,
                   attempts, writes, lastErr, atCallVars, allAuth, contended,
                   exitOut, lockErr>>

\* initSafe passes false to SetWritable
InitRequestedWritable_False == FALSE

\* initSafe: the argument it passes to SetWritable
InitRequestedWritable == TRUE

\* initSafe: backendClient.SetWritable(true)
InitSetWritable(s, io) ==
    /\ pc[s] = "init_setwritable"
    /\ lockHolders' = SetWritableLock(s, InitRequestedWritable, io)
    /\ IF AbortsOnLock(SetWritableErr(s, InitRequestedWritable, io))
       THEN Finish(s, ErrAlreadyRunning)
       ELSE /\ pc' = [pc EXCEPT ![s] = "init_password"]
            /\ UNCHANGED result
    /\ envFail' = [envFail EXCEPT ![s] = @ \/ SetWritableErr(s, InitRequestedWritable, io) = ErrIO]
    /\ lockErr' = [lockErr EXCEPT ![s] = SetWritableErr(s, InitRequestedWritable, io)]
    /\ contended' = [contended EXCEPT ![s] = lockHolders \ {s} # {}]
    /\ UNCHANGED <<stored, loaderVars, initVars, safe, calls, prompts, attempts, writes,
                   checkOut, lastErr, atCallVars, allAuth,
                   exitOut>>

\* readMasterPassConfirmed: the first prompt
ReadMasterPass(s, inp) ==
    /\ pc[s] = "init_password"
    /\ prompts' = [prompts EXCEPT ![s] = @ + 1]
    /\ IF inp = ErrInput
       THEN /\ Finish(s, ErrInput)
            /\ UNCHANGED initPass
       ELSE /\ initPass' = [initPass EXCEPT ![s] = inp]
            /\ pc' = [pc EXCEPT ![s] = "init_confirm"]
            /\ UNCHANGED result
    /\ UNCHANGED initConfirm
    /\ UNCHANGED <<stored, lockHolders, loaderVars, safe, calls, attempts, writes,
                   checkOut, lastErr, atCallVars, allAuth, contended, envFail,
                   exitOut, lockErr>>

\* the confirmation is not compared with the password
PasswordsEqual_Unchecked(a, b) == TRUE

\* readMasterPassConfirmed: bytes.Equal(password, passwordConfirm)
PasswordsEqual(a, b) == a = b

\* readMasterPassConfirmed: the confirmation prompt and the comparison
ReadMasterPassConfirm(s, inp) ==
    /\ pc[s] = "init_confirm"
    /\ prompts' = [prompts EXCEPT ![s] = @ + 1]
    /\ initConfirm' = [initConfirm EXCEPT ![s] = inp]
    /\ IF inp = ErrInput
       THEN Finish(s, ErrInput)
       ELSE IF ~PasswordsEqual(initPass[s], inp)
       THEN Finish(s, ErrNoMatch)
       ELSE /\ pc' = [pc EXCEPT ![s] = "init_safeload"]
            /\ UNCHANGED result
    /\ UNCHANGED <<stored, lockHolders, loaderVars, initPass, safe, calls, attempts,
                   writes, checkOut, lastErr, atCallVars, allAuth, contended, envFail,
                   exitOut, lockErr>>

\* initSafe: newCryptoClient and safe.Load
InitSafeLoad(s, cfgErr, io) ==
    /\ pc[s] = "init_safeload"
    /\ IF cfgErr
       THEN /\ Finish(s, ErrConfig)
            /\ UNCHANGED <<safe, attempts, lastErr>>
       ELSE LET r == SafeLoad(initPass[s], io) IN
            /\ attempts' = [attempts EXCEPT ![s] = @ + 1]
            /\ lastErr' = [lastErr EXCEPT ![s] = r.err]
            /\ safe' = [safe EXCEPT ![s] = r.safe]
            /\ IF r.err # Ok
               THEN Finish(s, r.err)
               ELSE /\ pc' = [pc EXCEPT ![s] = "init_safeinit"]
                    /\ UNCHANGED result
    /\ envFail' = [envFail EXCEPT ![s] = @ \/ cfgErr \/ io]
    /\ UNCHANGED <<stored, lockHolders, loaderVars, initVars, calls, prompts, writes,
                   checkOut, atCallVars, allAuth, contended,
                   exitOut, lockErr>>

\* initSafe: s.Init() and the return
InitSafeInit(s, ioRead, ioWrite) ==
    /\ pc[s] = "init_safeinit"
    /\ Finish(s, SafeInitErr(s, ioRead, ioWrite))
    /\ stored' = SafeInitStored(s, safe[s], ioRead, ioWrite)
    /\ writes' = [writes EXCEPT ![s] = @ + SafeInitSaves(ioRead)]
    /\ envFail' = [envFail EXCEPT ![s] = @ \/ ioRead \/ (ioWrite /\ SafeInitErr(s, ioRead, ioWrite) = ErrIO)]
    /\ UNCHANGED <<lockHolders, loaderVars, initVars, safe, calls, prompts, attempts,
                   checkOut, lastErr, atCallVars, allAuth, contended,
                   exitOut, lockErr>>

\* the command's process ends: its backend client and lock go with it
Exit(s) ==
    /\ pc[s] \in {"idle", "ready", "done"}
    /\ pc' = [pc EXCEPT ![s] = "exited"]
    /\ lockHolders' = lockHolders \ {s}
    /\ UNCHANGED <<stored, loaderVars, initVars, result, safe, histVars, lockErr>>

\* handleError(err): the message is printed, the exit code is 1
HandleError(err) == [printed |-> <<err>>, code |-> 1]

\* the usage branch does not end the process: the error is also printed
RunCommandOutcome_FallsThrough(err) ==
    IF err # Ok
    THEN [err |-> err, usage |-> err = ErrInvalidCommandUsage,
          printed |-> HandleError(err).printed, code |-> HandleError(err).code]
    ELSE [err |-> err, usage |-> FALSE, printed |-> <<>>, code |-> 0]

\* runCommand: what it shows and the code it exits with, for the error err the
\* command returned
RunCommandOutcome(err) ==
    IF err # Ok
    THEN IF err = ErrInvalidCommandUsage
         THEN [err |-> err, usage |-> TRUE, printed |-> <<>>, code |-> 1]
         ELSE [err |-> err, usage |-> FALSE,
               printed |-> HandleError(err).printed, code |-> HandleError(err).code]
    ELSE [err |-> err, usage |-> FALSE, printed |-> <<>>, code |-> 0]

\* the errors the command of session s can return to runCommand: a malformed
\* invocation is rejected before the safe is touched, otherwise the command
\* returns what its Load or initSafe returned
CommandErrs(s) ==
    IF pc[s] = "idle" THEN {ErrInvalidCommandUsage}
    ELSE IF result[s] = None THEN {Ok}
    ELSE {result[s]}

\* runCommand: the command returns err and the process exits
RunCommand(s, err) ==
    /\ err \in CommandErrs(s)
    /\ Exit(s)
    /\ exitOut' = [exitOut EXCEPT ![s] = RunCommandOutcome(err)]

Next ==
    \E s \in Sessions :
        \/ \E w \in BOOLEAN : NewSafeLoader(s, w)
        \/ RememberPassword(s)
        \/ \E cfgErr \in BOOLEAN, io \in BOOLEAN : Load(s, cfgErr, io)
        \/ \E io \in BOOLEAN : LwbcSetWritable(s, io)
        \/ \E inp \in Passwords \cup {ErrInput} : LwbcPassword(s, inp)
        \/ \E cfgErr \in BOOLEAN, io \in BOOLEAN : LwbcSafeLoad(s, cfgErr, io)
        \/ \E cfgErr \in BOOLEAN, io \in BOOLEAN : InitCheck(s, cfgErr, io)
        \/ \E io \in BOOLEAN : InitSetWritable(s, io)
        \/ \E inp \in Passwords \cup {ErrInput} : ReadMasterPass(s, inp)
        \/ \E inp \in Passwords \cup {ErrInput} : ReadMasterPassConfirm(s, inp)
        \/ \E cfgErr \in BOOLEAN, io \in BOOLEAN : InitSafeLoad(s, cfgErr, io)
        \/ \E ioRead \in BOOLEAN, ioWrite \in BOOLEAN : InitSafeInit(s, ioRead, ioWrite)
        \/ \E err \in CommandErrs(s) : RunCommand(s, err)

Spec == Init /\ [][Next]_vars

\* a step of the LoadWithBackendClient call of session s
LwbcStep(s) ==
    \/ \E io \in BOOLEAN : LwbcSetWritable(s, io)
    \/ \E inp \in Passwords \cup {ErrInput} : LwbcPassword(s, inp)
    \/ \E cfgErr \in BOOLEAN, io \in BOOLEAN : LwbcSafeLoad(s, cfgErr, io)

\* every prompt, backend call and crypto call of a running call returns
FairSpec == Spec /\ \A s \in Sessions : WF_vars(LwbcStep(s))

\* ------------------------------------------------------------------ claims
\* what the program keeps for session s
SessionState(s) ==
    <<pc[s], writable[s], password[s], maxLoadTries[s], loadTries[s], initPass[s],
      initConfirm[s],
      result[s], safe[s], calls[s], prompts[s], attempts[s], writes[s]>>

\* the step is one of session s
Acts(s) == SessionState(s)' # SessionState(s)

LoaderPcs == {"ready", "lwbc_setwritable", "lwbc_password", "lwbc_safeload"}
InitPcs == {"init_setwritable", "init_password", "init_confirm", "init_safeload",
            "init_safeinit", "done"}

\* a Load call of session s has returned
Returned(s) == pc[s] = "ready" /\ result[s] # None

\* the current call of session s started on a fresh loader
FreshCall(s) == triesAtCall[s] = 0 /\ ~cachedAtCall[s]

\* C1: a call on a fresh loader with budget N, all of whose safe.Load attempts
\* failed authentication, has made exactly N+1 prompts and N+1 attempts when
\* AuthenticationFailed is returned
C1_RetryBound ==
    \A s \in Sessions :
        (Returned(s) /\ result[s] = ErrAuthenticationFailed /\ FreshCall(s) /\ allAuth[s])
            => /\ prompts[s] = budgetAtCall[s] + 1
               /\ attempts[s] = budgetAtCall[s] + 1

C1_Witness ==
    \E s \in Sessions :
        /\ Returned(s) /\ result[s] = ErrAuthenticationFailed
        /\ FreshCall(s) /\ allAuth[s]
        /\ budgetAtCall[s] = MaxBudget
        /\ prompts[s] = MaxBudget + 1

\* the session asks for the writable lock at its SetWritable step
WantsWritable(s) ==
    \/ pc[s] = "init_setwritable"
    \/ pc[s] = "lwbc_setwritable" /\ writable[s]

\* C2: at most one session holds the writable lock; SetWritable(true) against a
\* lock another session holds returns AlreadyRunning at once and changes nothing;
\* against a free lock it is not rejected with AlreadyRunning and, when it
\* returns no error, the caller is the one holder, so of two contenders at most
\* one wins and the other observes AlreadyRunning
C2_LockExclusivity ==
    /\ [](Cardinality(lockHolders) <= 1)
    /\ [][\A s \in Sessions :
            (Acts(s) /\ WantsWritable(s)) =>
                IF lockHolders \ {s} # {}
                THEN /\ result'[s] = ErrAlreadyRunning
                     /\ pc'[s] \in {"ready", "done"}
                     /\ lockHolders' = lockHolders
                ELSE /\ lockErr'[s] # ErrAlreadyRunning
                     /\ lockErr'[s] = Ok => lockHolders' = {s}
                     /\ pc'[s] \in {"lwbc_password", "init_password"}]_vars

C2_Witness ==
    \E s, u \in Sessions :
        /\ s # u
        /\ lockHolders = {s}
        /\ result[u] = ErrAlreadyRunning

\* C3: a safe.Load that fails with an error other than AuthenticationFailed ends
\* the call: that error is returned, the cached password is kept and loadTries
\* is not incremented for it
C3_OnlyAuthFailureRetried ==
    \A s \in Sessions :
        (pc[s] \in LoaderPcs /\ lastErr[s] = ErrIO)
            => /\ Returned(s)
               /\ result[s] = ErrIO
               /\ password[s] # None
               /\ loadTries[s] = triesAtCall[s] + attempts[s] - 1

\* C4: no step of a Safe Loader changes the persisted payload
C4_LoaderNeverSaves ==
    [][\A s \in Sessions : (Acts(s) /\ pc[s] \in LoaderPcs) => stored' = stored]_vars

C4_Witness ==
    \E s \in Sessions :
        /\ Returned(s) /\ result[s] = ErrAuthenticationFailed
        /\ writable[s]
        /\ attempts[s] >= 2
        /\ stored # NoData
LwbcPcs == {"lwbc_setwritable", "lwbc_password", "lwbc_safeload"}

\* C5: an initSafe whose initialization check got anything but NotInitialized
\* from backend.Load() fails with AlreadyInitialized, takes no lock, prompts for
\* no password and writes nothing
C5_NoDoubleInit ==
    \A s \in Sessions :
        (pc[s] \in InitPcs /\ checkOut[s] \in {Ok, ErrIO})
            => /\ pc[s] = "done"
               /\ result[s] = ErrAlreadyInitialized
               /\ s \notin lockHolders
               /\ prompts[s] = 0
               /\ writes[s] = 0

\* C6: when SetWritable returns AlreadyRunning, LoadWithBackendClient returns
\* AlreadyRunning in that step, with no prompt, no safe.Load attempt and no
\* change to the cached password or to loadTries
C6_LockContentionAborts ==
    [][\A s \in Sessions :
        (Acts(s) /\ pc[s] = "lwbc_setwritable"
                 /\ SetWritableErr(s, writable[s], FALSE) = ErrAlreadyRunning)
            => /\ pc'[s] = "ready"
               /\ result'[s] = ErrAlreadyRunning
               /\ prompts'[s] = prompts[s]
               /\ attempts'[s] = attempts[s]
               /\ password'[s] = password[s]
               /\ loadTries'[s] = loadTries[s]]_vars

C6_Witness ==
    \E s \in Sessions :
        /\ Returned(s) /\ result[s] = ErrAlreadyRunning
        /\ contended[s]
        /\ maxLoadTries[s] > loadTries[s]
        /\ prompts[s] = 0 /\ attempts[s] = 0

\* C7: a Load call returns every error other than AuthenticationFailed as the
\* kind it arose with: a read failure at the initialization check as IOError
\* (never as "not initialized", which is kept for NotInitialized), and an
\* IOError of safe.Load as IOError
C7_ErrorsPropagateUnchanged ==
    \A s \in Sessions :
        Returned(s) =>
            /\ checkOut[s] = ErrIO => result[s] = ErrIO
            /\ result[s] = ErrNotYetInitialized => checkOut[s] = ErrNotInitialized
            /\ lastErr[s] = ErrIO => result[s] = ErrIO

\* C8: a Load whose initialization check finds NotInitialized returns the "not
\* initialized" error in that step, leaving the lock, the cached password and
\* loadTries alone and making no prompt and no safe.Load attempt; the unlock
\* sequence runs only after the check found stored data
C8_InitCheckFirst ==
    /\ [](\A s \in Sessions : pc[s] \in LwbcPcs => checkOut[s] = Ok)
    /\ [][\A s \in Sessions :
            (Acts(s) /\ pc[s] = "ready" /\ calls'[s] # calls[s]
                     /\ checkOut'[s] = ErrNotInitialized)
                => /\ pc'[s] = "ready"
                   /\ result'[s] = ErrNotYetInitialized
                   /\ lockHolders' = lockHolders
                   /\ prompts'[s] = 0
                   /\ attempts'[s] = 0
                   /\ password'[s] = password[s]
                   /\ loadTries'[s] = loadTries[s]]_vars

C8_Witness ==
    \E s \in Sessions :
        /\ Returned(s) /\ result[s] = ErrNotYetInitialized
        /\ checkOut[s] = ErrNotInitialized
        /\ writable[s]
        /\ maxLoadTries[s] > 0

\* C9: a read-only loader never holds the writable lock, is never rejected with
\* AlreadyRunning, never changes who holds the lock, and its safe.Load with the
\* password of the stored payload does not fail authentication and, unless the
\* read fails, returns the stored collection, whoever holds the lock
C9_ReadOnlyTakesNoLock ==
    /\ [](\A s \in Sessions :
            (pc[s] \in LoaderPcs /\ ~writable[s])
                => s \notin lockHolders /\ result[s] # ErrAlreadyRunning)
    /\ [][\A s \in Sessions :
            (Acts(s) /\ pc[s] \in LoaderPcs /\ ~writable[s])
                => /\ lockHolders' = lockHolders
                   /\ (pc[s] = "lwbc_safeload" /\ password[s] = stored.key
                         /\ attempts'[s] # attempts[s])
                        => /\ lastErr'[s] \in {Ok, ErrIO}
                           /\ lastErr'[s] = Ok => /\ Returned(s)'
                                                  /\ result'[s] = Ok
                                                  /\ safe'[s].entries = stored.plain]_vars

C9_Witness ==
    \E s, u \in Sessions :
        /\ s # u
        /\ ~writable[s] /\ Returned(s) /\ result[s] = Ok
        /\ contended[s]
        /\ lockHolders = {u}

\* the entered and the confirmed password of initSafe were equal
PasswordsMatched(s) ==
    /\ prompts[s] = 2
    /\ ~(pc[s] = "done" /\ result[s] \in {ErrInput, ErrNoMatch})

Ended(s) == pc[s] \in {"done", "exited"}

\* C11: initSafe goes on to safe.Load only after exactly two prompts whose inputs
\* are the same password; it never prompts a third time; when the inputs differ
\* or a prompt returns an input error it fails in that step, the session never
\* writes to the backend, and the prompts leave the stored payload as it was
C11_TwoPromptsExactMatch ==
    /\ [](\A s \in Sessions :
            /\ (pc[s] \in {"init_safeload", "init_safeinit"}
                    \/ (Ended(s) /\ writes[s] > 0))
                => /\ prompts[s] = 2
                   /\ initPass[s] \in Passwords
                   /\ initConfirm[s] = initPass[s]
            /\ pc[s] \in InitPcs => prompts[s] <= 2
            /\ (initConfirm[s] # None /\ initConfirm[s] # initPass[s])
                => /\ Ended(s)
                   /\ result[s] = IF initConfirm[s] = ErrInput THEN ErrInput ELSE ErrNoMatch
                   /\ writes[s] = 0
            /\ (Ended(s) /\ result[s] \in {ErrInput, ErrNoMatch}) => writes[s] = 0)
    /\ [][\A s \in Sessions :
            (Acts(s) /\ pc[s] \in {"init_password", "init_confirm"})
                => /\ stored' = stored
                   /\ writes'[s] = 0
                   /\ prompts'[s] = prompts[s] + 1]_vars

C11_Witness ==
    \E s \in Sessions :
        /\ pc[s] = "done" /\ result[s] = ErrNoMatch
        /\ prompts[s] = 2
        /\ initPass[s] = "p1" /\ initConfirm[s] = "p2"
        /\ checkOut[s] = ErrNotInitialized
        /\ writes[s] = 0
        /\ stored = NoData
\* C12: a process that has ended exited with code 0 exactly when its command
\* returned no error; on the usage error the usage text was shown, nothing was
\* printed and the code is 1; on any other error the usage text was not shown,
\* the error message was printed exactly once and the code is 1
C12_ExitContract ==
    \A s \in Sessions :
        pc[s] = "exited" =>
            LET o == exitOut[s] IN
            /\ o.err \in CommandErrs(s) \cup {ErrInvalidCommandUsage}
            /\ o.code \in {0, 1}
            /\ o.code = 0 <=> o.err = Ok
            /\ o.err = Ok => (~o.usage /\ o.printed = <<>>)
            /\ o.err = ErrInvalidCommandUsage => (o.usage /\ o.printed = <<>> /\ o.code = 1)
            /\ o.err \notin {Ok, ErrInvalidCommandUsage}
                => (~o.usage /\ o.printed = <<o.err>> /\ o.code = 1)

C12_Witness ==
    \E s, u \in Sessions :
        /\ pc[s] = "exited" /\ exitOut[s].err = ErrInvalidCommandUsage
        /\ exitOut[s].usage /\ exitOut[s].code = 1
        /\ pc[u] = "exited" /\ exitOut[u].err = ErrAuthenticationFailed
        /\ exitOut[u].printed = <<ErrAuthenticationFailed>> /\ exitOut[u].code = 1
\* the initSafe of session s has written its payload
Wrote(s) == writes[s] > 0 /\ result[s] = Ok

\* C13: of two sessions running initSafe at most one writes a payload; once one
\* session's init has written, no step of the other session's initSafe changes
\* the payload, and the other session's initSafe, unless one of its own backend
\* calls or password inputs fails, ends with AlreadyInitialized or
\* AlreadyRunning
C13_ConcurrentInitSafe ==
    /\ [](Cardinality({s \in Sessions : Wrote(s)}) <= 1)
    /\ [][\A s \in Sessions :
            (/\ Acts(s)
             /\ pc[s] \in InitPcs \ {"done"}
             /\ \E u \in Sessions \ {s} : Wrote(u))
                => /\ stored' = stored
                   /\ (pc'[s] = "done" /\ ~envFail'[s]
                                       /\ result'[s] \notin {ErrInput, ErrNoMatch})
                        => result'[s] \in {ErrAlreadyInitialized, ErrAlreadyRunning}]_vars
\* C14: a writable loader that has returned a Safe holds the writable lock; and
\* when the SetWritable(true) of a writable loader returns an error, whatever
\* the error, LoadWithBackendClient returns that error in that step, without a
\* prompt and without a Safe
C14_WritableUnlockOwnsLock ==
    /\ [](\A s \in Sessions :
            (Returned(s) /\ result[s] = Ok /\ writable[s]) => s \in lockHolders)
    /\ [][\A s \in Sessions :
            (Acts(s) /\ pc[s] = "lwbc_setwritable" /\ writable[s] /\ lockErr'[s] # Ok)
                => /\ pc'[s] = "ready"
                   /\ result'[s] = lockErr'[s]
                   /\ prompts'[s] = prompts[s]
                   /\ safe'[s] = NoSafe]_vars
\* C15: a call on a fresh loader with budget N in which nothing but
\* authentication failed returns the unlocked Safe after k+1 prompts and k+1
\* attempts with loadTries = k <= N, holding the lock if it is writable; every
\* attempt with a wrong password is retried while loadTries < maxLoadTries, an
\* attempt with the right password returns the Safe, and the SetWritable of a
\* session that meets no other lock holder, the repeated one of a retry
\* included, is not rejected with AlreadyRunning and goes on to the prompt
C15_RetryWithinBudgetSucceeds ==
    /\ [](\A s \in Sessions :
            (Returned(s) /\ result[s] = Ok /\ FreshCall(s) /\ ~envFail[s])
                => /\ prompts[s] = loadTries[s] + 1
                   /\ attempts[s] = loadTries[s] + 1
                   /\ loadTries[s] <= budgetAtCall[s]
                   /\ password[s] = stored.key
                   /\ safe[s].entries = stored.plain
                   /\ writable[s] => s \in lockHolders)
    /\ [][\A s \in Sessions :
            /\ (Acts(s) /\ pc[s] = "lwbc_safeload" /\ ~envFail'[s])
                => IF password[s] = stored.key
                   THEN Returned(s)' /\ result'[s] = Ok
                   ELSE IF loadTries[s] < maxLoadTries[s]
                   THEN /\ pc'[s] = "lwbc_setwritable"
                        /\ loadTries'[s] = loadTries[s] + 1
                        /\ password'[s] = None
                   ELSE Returned(s)' /\ result'[s] = ErrAuthenticationFailed
            /\ (Acts(s) /\ pc[s] = "lwbc_setwritable" /\ lockHolders \ {s} = {})
                => /\ lockErr'[s] # ErrAlreadyRunning
                   /\ pc'[s] = "lwbc_password"
            /\ (Acts(s) /\ pc[s] = "lwbc_password" /\ password[s] = None)
                => prompts'[s] = prompts[s] + 1]_vars

C15_Witness ==
    \E s \in Sessions :
        /\ Returned(s) /\ result[s] = Ok /\ FreshCall(s) /\ ~envFail[s]
        /\ writable[s] /\ lockHolders = {s}
        /\ budgetAtCall[s] = 1 /\ loadTries[s] = 1
        /\ prompts[s] = 2 /\ attempts[s] = 2
\* C16: loadTries stays between 0 and maxLoadTries; maxLoadTries changes only
\* by +1, in a RememberPassword step, and loadTries changes only by +1, in the
\* step that retries a failed safe.Load, so neither decreases or is reset
C16_CounterInvariant ==
    /\ [](\A s \in Sessions : 0 <= loadTries[s] /\ loadTries[s] <= maxLoadTries[s])
    /\ [][\A s \in Sessions :
            /\ maxLoadTries'[s] # maxLoadTries[s]
                => /\ maxLoadTries'[s] = maxLoadTries[s] + 1
                   /\ pc[s] = "ready" /\ pc'[s] = "ready"
                   /\ loadTries'[s] = loadTries[s]
                   /\ calls'[s] = calls[s]
            /\ loadTries'[s] # loadTries[s]
                => /\ loadTries'[s] = loadTries[s] + 1
                   /\ pc[s] = "lwbc_safeload" /\ pc'[s] = "lwbc_setwritable"
                   /\ attempts'[s] = attempts[s] + 1
                   /\ lastErr'[s] \notin {None, Ok}]_vars

C16_Witness ==
    \E s \in Sessions :
        /\ calls[s] = 2 /\ Returned(s) /\ result[s] = ErrAuthenticationFailed
        /\ maxLoadTries[s] = 1 /\ loadTries[s] = 1 /\ triesAtCall[s] = 1
        /\ attempts[s] = 1
\* C17: a LoadWithBackendClient call makes at most maxLoadTries - loadTries + 1
\* safe.Load attempts and at most maxLoadTries - loadTries retries (the depth of
\* its recursion), with the values at the time of the call, and, its prompts,
\* backend calls and crypto calls returning, it returns
C17_Termination ==
    /\ [](\A s \in Sessions :
            (pc[s] \in LoaderPcs /\ calls[s] > 0)
                => /\ attempts[s] <= budgetAtCall[s] - triesAtCall[s] + 1
                   /\ loadTries[s] - triesAtCall[s] <= budgetAtCall[s] - triesAtCall[s]
                   /\ loadTries[s] - triesAtCall[s] <= attempts[s]
                   /\ attempts[s] <= loadTries[s] - triesAtCall[s] + 1)
    /\ \A s \in Sessions : (pc[s] \in LwbcPcs) ~> Returned(s)

C17_Witness ==
    \E s \in Sessions :
        /\ Returned(s) /\ result[s] = ErrAuthenticationFailed
        /\ budgetAtCall[s] = 1 /\ triesAtCall[s] = 0
        /\ attempts[s] = 2 /\ loadTries[s] = 1
\* C18: the password step of an unlock attempt prompts exactly when no password
\* is cached; a safe.Load attempt uses the cached password; a cached password
\* is discarded only in the step that retries an authentication failure; after
\* a Load that returned the Safe the password is cached, it is still cached when
\* the next Load starts, and that Load, as long as it retries nothing, makes no
\* prompt
C18_PasswordCaching ==
    /\ [](\A s \in Sessions :
            /\ (Returned(s) /\ result[s] = Ok) => password[s] = stored.key
            /\ (pc[s] \in LoaderPcs /\ calls[s] > 0 /\ cachedAtCall[s]
                    /\ loadTries[s] = triesAtCall[s])
                => prompts[s] = 0)
    /\ [][\A s \in Sessions :
            /\ (Acts(s) /\ pc[s] = "lwbc_password")
                => (prompts'[s] = prompts[s] + 1 <=> password[s] = None)
            /\ (Acts(s) /\ pc[s] = "lwbc_safeload" /\ attempts'[s] # attempts[s])
                => /\ lastErr'[s] = Ok
                        => password[s] = stored.key /\ safe'[s].password = password[s]
                   /\ lastErr'[s] = ErrAuthenticationFailed => password[s] # stored.key
            /\ (Acts(s) /\ pc[s] = "ready" /\ calls'[s] # calls[s] /\ result[s] = Ok)
                => cachedAtCall'[s]
            /\ (Acts(s) /\ password[s] # None /\ password'[s] = None)
                => /\ pc[s] = "lwbc_safeload" /\ pc'[s] = "lwbc_setwritable"
                   /\ lastErr'[s] = ErrAuthenticationFailed]_vars
====
